---- MODULE Spec2Model ----
(***************************************************************************)
(* ndf ("nice disk free"), src/src/main.rs: the run of main as a state     *)
(* machine.  main parses its arguments, walks the sysinfo volume listing,  *)
(* walks the mountpoints listing for the paths sysinfo did not report,     *)
(* and prints one bar per record.                                          *)
(*                                                                         *)
(* Strings are sequences of one-character strings, so that starts_with,    *)
(* split and trim are computed and not assumed.  Paths and names are valid *)
(* UTF-8, on which to_string_lossy changes nothing.  An f64 fraction is    *)
(* the exact rational [num, den] in lowest terms with den > 0; the byte    *)
(* counts used are far below 2^53, so every u64 -> f64 cast is exact.      *)
(***************************************************************************)
EXTENDS Integers, Sequences, FiniteSets

VARIABLES
    argv,              \* the command line: mode, --only-mp, --exclude-mp
    sysinfo_disks,     \* what Disks::new_with_refreshed_list().list() yields
    mountpaths,        \* what mountpoints::mountpaths() returns, with the
                       \* answers the OS gives for each listed path
    pc,                \* where main stands
    idx,               \* position of the running for loop in its listing
    output_mode,       \* main's output_mode
    only_mp,           \* main's only_mp    (Option<HashSet<String>>)
    exclude_mp,        \* main's exclude_mp (Option<HashSet<String>>)
    disks,             \* main's disks: Vec<NDFDisk>
    processed_mounts,  \* main's processed_mounts: HashSet<String>
    target_unix,       \* whether the build is cfg(unix)
    statvfs_calls,     \* the paths get_disk_usage_for_path was called with
    printed            \* the rows written to stdout, one per record

vars == <<argv, sysinfo_disks, mountpaths, pc, idx, output_mode, only_mp,
          exclude_mp, disks, processed_mounts, target_unix, statvfs_calls,
          printed>>

----------------------------------------------------------------------------
(* Option and Result *)

None == [some |-> FALSE]
Some(x) == [some |-> TRUE, val |-> x]
Ok(x) == [ok |-> TRUE, val |-> x]
Err(e) == [ok |-> FALSE, err |-> e]

unwrap_or(opt, default) == IF opt.some THEN opt.val ELSE default

----------------------------------------------------------------------------
(* str: starts_with, split, trim, Iterator::last *)

starts_with(s, prefix) ==
    /\ Len(s) >= Len(prefix)
    /\ SubSeq(s, 1, Len(prefix)) = prefix

RECURSIVE split(_, _)
split(s, sep) ==
    LET hits == {k \in 1..Len(s) : s[k] = sep}
    IN  IF hits = {}
        THEN <<s>>
        ELSE LET k == CHOOSE h \in hits : \A g \in hits : h <= g
             IN  <<SubSeq(s, 1, k - 1)>> \o split(SubSeq(s, k + 1, Len(s)), sep)

last(xs) == IF Len(xs) = 0 THEN None ELSE Some(xs[Len(xs)])

WhiteSpace == {" ", "\t"}

RECURSIVE trim(_)
trim(s) ==
    IF Len(s) = 0 THEN s
    ELSE IF s[1] \in WhiteSpace THEN trim(SubSeq(s, 2, Len(s)))
    ELSE IF s[Len(s)] \in WhiteSpace THEN trim(SubSeq(s, 1, Len(s) - 1))
    ELSE s

\* matches.get_one::<String>(..).map(|s| s.split(',').map(|s| s.trim()..).collect())
parse_mountpoints(arg) ==
    IF arg.some
    THEN LET items == split(arg.val, ",")
         IN  Some({trim(items[k]) : k \in 1..Len(items)})
    ELSE None

----------------------------------------------------------------------------
(* f64 as exact rationals *)

RECURSIVE GCD(_, _)
GCD(a, b) == IF b = 0 THEN a ELSE GCD(b, a % b)

Abs(n) == IF n < 0 THEN -n ELSE n

Frac(n, d) ==
    LET g == GCD(Abs(n), d)
    IN  [num |-> n \div g, den |-> d \div g]

\* f64::ceil followed by `as usize`, which saturates: a negative value gives 0
ceil_as_usize(n, d) ==
    LET c == -((-n) \div d)
    IN  IF c < 0 THEN 0 ELSE c

MAX_CHARS == 50

\* get_frac with a zero-sized volume taken as full
get_frac_full_when_empty(avail, total) ==
    IF total = 0 THEN Frac(1, 1) ELSE Frac(total - avail, total)

get_frac(avail, total) ==
    IF total = 0 THEN Frac(0, 1) ELSE Frac(total - avail, total)

----------------------------------------------------------------------------
(* NDFDisk *)

create_ndf_disk(disk) ==
    [name          |-> disk.name,
     space_as_frac |-> get_frac(disk.available_space, disk.total_space),
     mnt           |-> disk.mount_point,
     size          |-> disk.total_space,
     free          |-> disk.available_space]

\* (MAX_CHARS as f64 * 0.2) as usize
high_usage_cells == (MAX_CHARS * 2) \div 10

create_bar(self) ==
    LET chars_num == ceil_as_usize(MAX_CHARS * self.space_as_frac.num,
                                   self.space_as_frac.den)
        rem_num   == MAX_CHARS - chars_num
    IN  [chars |-> chars_num, rem |-> rem_num,
         red   |-> rem_num < high_usage_cells]

create_plain_bar(self) ==
    LET chars_num == ceil_as_usize(MAX_CHARS * self.space_as_frac.num,
                                   self.space_as_frac.den)
        rem_num   == MAX_CHARS - chars_num
    IN  [chars |-> chars_num, rem |-> rem_num]

\* is_high_usage with <= in place of <
is_high_usage_at_threshold(self) ==
    LET rem_num == MAX_CHARS - ceil_as_usize(MAX_CHARS * self.space_as_frac.num,
                                             self.space_as_frac.den)
    IN  rem_num <= high_usage_cells

is_high_usage(self) ==
    LET rem_num == MAX_CHARS - ceil_as_usize(MAX_CHARS * self.space_as_frac.num,
                                             self.space_as_frac.den)
    IN  rem_num < high_usage_cells

----------------------------------------------------------------------------
(* The operating system, as main consults it for one listed mount path m *)

NUL == "NUL"

\* the second loop without its accessibility check
fs_metadata_always_ok(m) == Ok("Metadata")

\* std::fs::metadata(&mount_path)
fs_metadata(m) == IF m.metadata_ok THEN Ok("Metadata") ELSE Err("NotFound")

\* std::path::Path::new(&mount_str).exists()
path_exists(m) == m.exists

get_disk_usage_for_path(m, unix) ==
    IF unix
    THEN IF \E k \in 1..Len(m.path) : m.path[k] = NUL
         THEN Err("InvalidInput")
         ELSE IF m.statvfs.rc = 0
              THEN Ok([total |-> m.statvfs.f_frsize * m.statvfs.f_blocks,
                       free  |-> m.statvfs.f_frsize * m.statvfs.f_bavail])
              ELSE Err("last_os_error")
    ELSE Err("Unsupported")

----------------------------------------------------------------------------
(* String literals of main *)

Slash == <<"/">>
Abs1(a) == Slash \o a
Abs2(a, b) == Slash \o a \o Slash \o b
Abs3(a, b, c) == Slash \o a \o Slash \o b \o Slash \o c

W_var     == <<"v", "a", "r">>
W_snap    == <<"s", "n", "a", "p">>
W_private == <<"p", "r", "i", "v", "a", "t", "e">>
W_sys     == <<"s", "y", "s">>
W_proc    == <<"p", "r", "o", "c">>
W_run     == <<"r", "u", "n">>
W_boot    == <<"b", "o", "o", "t">>
W_dev     == <<"d", "e", "v">>
W_System  == <<"S", "y", "s", "t", "e", "m">>
W_Volumes == <<"V", "o", "l", "u", "m", "e", "s">>
W_Data    == <<"D", "a", "t", "a">>

S_var_snap_      == Abs2(W_var, W_snap) \o Slash     \* "/var/snap/"
S_private_       == Abs1(W_private) \o Slash         \* "/private/"
S_sys_           == Abs1(W_sys) \o Slash             \* "/sys/"
S_proc_          == Abs1(W_proc) \o Slash            \* "/proc/"
S_run_           == Abs1(W_run) \o Slash             \* "/run/"
S_boot_          == Abs1(W_boot) \o Slash            \* "/boot/"
S_var_           == Abs1(W_var) \o Slash             \* "/var/"
S_var            == Abs1(W_var)                      \* "/var"
S_dev_           == Abs1(W_dev) \o Slash             \* "/dev/"
S_dev            == Abs1(W_dev)                      \* "/dev"
S_System_Volumes_    == Abs2(W_System, W_Volumes) \o Slash
S_System_Volumes_Data == Abs3(W_System, W_Volumes, W_Data)
S_unknown == <<"<", "u", "n", "k", "n", "o", "w", "n", ">">>  \* "<unknown>"

----------------------------------------------------------------------------
(* The first loop's tests on one sysinfo disk *)

\* fs_type == "overlay" || fs_type == "devfs" || mnt.starts_with("/var/snap/")
disk_is_pseudo(disk) ==
    \/ disk.file_system = "overlay"
    \/ disk.file_system = "devfs"
    \/ starts_with(disk.mount_point, S_var_snap_)

disk_is_internal(mnt) ==
    \/ starts_with(mnt, S_private_)
    \/ starts_with(mnt, S_sys_)
    \/ starts_with(mnt, S_proc_)
    \/ starts_with(mnt, S_run_)
    \/ starts_with(mnt, S_boot_)
    \/ (starts_with(mnt, S_var_) /\ mnt # S_var)

disk_is_filtered(mnt, only, exclude) ==
    \/ (only.some /\ mnt \notin only.val)
    \/ (exclude.some /\ mnt \in exclude.val)

\* disk_skipped without the "/boot/" test
disk_skipped_keeping_boot(disk, only, exclude) ==
    \/ disk_is_pseudo(disk)
    \/ starts_with(disk.mount_point, S_private_)
    \/ starts_with(disk.mount_point, S_sys_)
    \/ starts_with(disk.mount_point, S_proc_)
    \/ starts_with(disk.mount_point, S_run_)
    \/ (starts_with(disk.mount_point, S_var_) /\ disk.mount_point # S_var)
    \/ disk_is_filtered(disk.mount_point, only, exclude)

\* whether the loop body reaches a `continue` before disks.push
disk_skipped(disk, only, exclude) ==
    \/ disk_is_pseudo(disk)
    \/ disk_is_internal(disk.mount_point)
    \/ disk_is_filtered(disk.mount_point, only, exclude)

----------------------------------------------------------------------------
(* The second loop's tests on one mount path *)

\* the second loop without its processed_mounts test
already_processed_never(mount_str, processed) == FALSE

\* processed_mounts.contains(&mount_str)
already_processed(mount_str, processed) == mount_str \in processed

mount_is_filtered(mount_str, only, exclude) ==
    \/ (only.some /\ mount_str \notin only.val)
    \/ (exclude.some /\ mount_str \in exclude.val)

mount_is_internal(mount_str) ==
    \/ (starts_with(mount_str, S_System_Volumes_)
            /\ mount_str # S_System_Volumes_Data)
    \/ starts_with(mount_str, S_dev_)
    \/ starts_with(mount_str, S_private_)
    \/ starts_with(mount_str, S_sys_)
    \/ starts_with(mount_str, S_proc_)
    \/ starts_with(mount_str, S_run_)
    \/ starts_with(mount_str, S_boot_)
    \/ starts_with(mount_str, S_var_snap_)
    \/ (starts_with(mount_str, S_var_) /\ mount_str # S_var)

\* mount_skipped without the only_mp test
mount_skipped_ignoring_only(mount_str, only, exclude) ==
    \/ (exclude.some /\ mount_str \in exclude.val)
    \/ mount_is_internal(mount_str)
    \/ mount_str = S_dev

\* whether the loop body reaches a `continue` after the usage query
mount_skipped(mount_str, only, exclude) ==
    \/ mount_is_filtered(mount_str, only, exclude)
    \/ mount_is_internal(mount_str)
    \/ mount_str = S_dev

mount_name(mount_str) == unwrap_or(last(split(mount_str, "/")), S_unknown)

\* mount_records with free > total computed by get_frac like any other pair
mount_records_computing_anomaly(m, usage) ==
    IF usage.total = 0 /\ usage.free = 0
    THEN <<>>
    ELSE IF usage.total > 0
         THEN <<[name          |-> mount_name(m.path),
                 space_as_frac |-> get_frac(usage.free, usage.total),
                 mnt           |-> m.path,
                 size          |-> usage.total,
                 free          |-> usage.free]>>
         ELSE <<>>

\* the records the classification of (total, free) pushes: none or one
mount_records(m, usage) ==
    IF usage.total = 0 /\ usage.free = 0
    THEN <<>>
    ELSE IF usage.total > 0 /\ usage.free <= usage.total
    THEN <<[name          |-> mount_name(m.path),
            space_as_frac |-> get_frac(usage.free, usage.total),
            mnt           |-> m.path,
            size          |-> usage.total,
            free          |-> usage.free]>>
    ELSE IF usage.total > 0 /\ usage.free > usage.total
    THEN IF path_exists(m)
         THEN <<[name          |-> mount_name(m.path),
                 space_as_frac |-> Frac(1, 10),
                 mnt           |-> m.path,
                 size          |-> usage.total,
                 free          |-> usage.free]>>
         ELSE <<>>
    ELSE <<>>

----------------------------------------------------------------------------
(* main *)

mount_paths == IF mountpaths.ok THEN mountpaths.val ELSE <<>>

\* matches.get_one(..): mode, only_mp and exclude_mp
ParseArgs ==
    /\ pc = "args"
    /\ output_mode' = unwrap_or(argv.mode, "table")
    /\ only_mp' = parse_mountpoints(argv.only_mp)
    /\ exclude_mp' = parse_mountpoints(argv.exclude_mp)
    /\ pc' = "sysinfo"
    /\ idx' = 1
    /\ UNCHANGED <<argv, sysinfo_disks, mountpaths, disks, processed_mounts,
                   target_unix, statvfs_calls, printed>>

\* one turn of `for disk in Disks::new_with_refreshed_list().list()`
ProcessDisk ==
    /\ pc = "sysinfo"
    /\ idx <= Len(sysinfo_disks)
    /\ LET disk == sysinfo_disks[idx]
       IN  /\ processed_mounts' = processed_mounts \cup {disk.mount_point}
           /\ disks' = IF disk_skipped(disk, only_mp, exclude_mp)
                       THEN disks
                       ELSE Append(disks, create_ndf_disk(disk))
    /\ idx' = idx + 1
    /\ UNCHANGED <<argv, sysinfo_disks, mountpaths, pc, output_mode, only_mp,
                   exclude_mp, target_unix, statvfs_calls, printed>>

\* `if let Ok(mount_paths) = mountpoints::mountpaths()`: an Err leaves
\* nothing to walk
ListMountpaths ==
    /\ pc = "sysinfo"
    /\ idx > Len(sysinfo_disks)
    /\ pc' = "mountpoints"
    /\ idx' = 1
    /\ UNCHANGED <<argv, sysinfo_disks, mountpaths, output_mode, only_mp,
                   exclude_mp, disks, processed_mounts, target_unix,
                   statvfs_calls, printed>>

\* one turn of `for mount_path in mount_paths`
ProcessMountPath ==
    /\ pc = "mountpoints"
    /\ idx <= Len(mount_paths)
    /\ LET m == mount_paths[idx]
       IN  IF already_processed(m.path, processed_mounts)
           THEN UNCHANGED <<disks, statvfs_calls>>
           ELSE IF ~fs_metadata(m).ok
           THEN UNCHANGED <<disks, statvfs_calls>>
           ELSE LET usage == get_disk_usage_for_path(m, target_unix)
                IN  /\ statvfs_calls' = statvfs_calls \cup {m.path}
                    /\ disks' =
                         IF ~usage.ok
                         THEN disks
                         ELSE IF mount_skipped(m.path, only_mp, exclude_mp)
                         THEN disks
                         ELSE disks \o mount_records(m, usage.val)
    /\ idx' = idx + 1
    /\ UNCHANGED <<argv, sysinfo_disks, mountpaths, pc, output_mode, only_mp,
                   exclude_mp, processed_mounts, target_unix, printed>>

\* the bar of one record as the chosen layout prints it
print_row(disk, mode) ==
    IF mode = "table"
    THEN LET plain_bar == create_plain_bar(disk)
         IN  [chars |-> plain_bar.chars, rem |-> plain_bar.rem,
              red   |-> is_high_usage(disk)]
    ELSE create_bar(disk)

\* `match output_mode { .. }`: one row per record, in the order of disks
PrintDisks ==
    /\ pc = "mountpoints"
    /\ idx > Len(mount_paths)
    /\ printed' = [k \in 1..Len(disks) |-> print_row(disks[k], output_mode)]
    /\ pc' = "done"
    /\ UNCHANGED <<argv, sysinfo_disks, mountpaths, idx, output_mode, only_mp,
                   exclude_mp, disks, processed_mounts, target_unix,
                   statvfs_calls>>

Next ==
    \/ ParseArgs
    \/ ProcessDisk
    \/ ListMountpaths
    \/ ProcessMountPath
    \/ PrintDisks

----------------------------------------------------------------------------
(* Inputs *)

SeqsUpTo(S, n) == UNION {[1..k -> S] : k \in 0..n}

InitWith(Volumes, Mounts, Argvs, Targets, maxVolumes, maxMounts) ==
    /\ argv \in Argvs
    /\ sysinfo_disks \in SeqsUpTo(Volumes, maxVolumes)
    /\ mountpaths \in {Err("io")} \cup {Ok(l) : l \in SeqsUpTo(Mounts, maxMounts)}
    /\ target_unix \in Targets
    /\ pc = "args"
    /\ idx = 1
    /\ output_mode = "table"
    /\ only_mp = None
    /\ exclude_mp = None
    /\ disks = <<>>
    /\ processed_mounts = {}
    /\ statvfs_calls = {}
    /\ printed = <<>>

W_mnt == <<"m", "n", "t">>
W_sda == <<"s", "d", "a">>
P_root   == Slash                      \* "/"
P_mnt_a  == Abs2(W_mnt, <<"a">>)       \* "/mnt/a"
P_mnt_b  == Abs2(W_mnt, <<"b">>)       \* "/mnt/b"
P_mnt_b_ == P_mnt_b \o Slash           \* "/mnt/b/"
Comma == <<",">>
Space == <<" ">>

Volume(mnt, fs, total, avail) ==
    [name |-> W_sda, mount_point |-> mnt, file_system |-> fs,
     total_space |-> total, available_space |-> avail]

Mount(path, metadata_ok, rc, blocks, bavail, exists) ==
    [path |-> path, metadata_ok |-> metadata_ok,
     statvfs |-> [rc |-> rc, f_frsize |-> 50, f_blocks |-> blocks,
                  f_bavail |-> bavail],
     exists |-> exists]

Argv(mode, only, exclude) ==
    [mode |-> mode, only_mp |-> only, exclude_mp |-> exclude]

(* Reconciliation of the two listings: repeated paths, paths in both       *)
(* listings, failing queries, both builds.                                 *)
MaxVolumes == 1
MaxMounts == 2

Volumes ==
    {Volume(mnt, fs, 1000, 250) : mnt \in {P_mnt_a, P_root},
                                  fs \in {"ext4", "overlay"}}

Mounts ==
    {Mount(path, a[1], a[2], 10, 5, TRUE) :
        path \in {P_mnt_a, P_mnt_b, P_mnt_b_, P_root},
        a \in {<<FALSE, 0>>, <<TRUE, -1>>, <<TRUE, 0>>}}

Argvs ==
    {Argv(None, None, None),
     Argv(None, Some(P_mnt_a \o Comma \o Space \o P_root), None),
     Argv(Some("compact"), None, Some(P_mnt_b))}

Init == InitWith(Volumes, Mounts, Argvs, BOOLEAN, MaxVolumes, MaxMounts)

Spec == Init /\ [][Next]_vars

(* The exclusion rules and the user's lists: one path under every prefix   *)
(* main tests, from either listing.                                        *)
MaxFilterVolumes == 1
MaxFilterMounts == 1

P_var_snap_x == S_var_snap_ \o <<"x">>            \* "/var/snap/x"
P_var_log    == S_var_ \o <<"l", "o", "g">>       \* "/var/log"
P_sys_fs     == S_sys_ \o <<"f", "s">>            \* "/sys/fs"
P_proc_x     == S_proc_ \o <<"x">>                \* "/proc/x"
P_boot_efi   == S_boot_ \o <<"e", "f", "i">>      \* "/boot/efi"
P_boot       == Abs1(W_boot)                      \* "/boot"
P_run_u      == S_run_ \o <<"u">>                 \* "/run/u"
P_private_x  == S_private_ \o <<"x">>             \* "/private/x"
P_dev_shm    == S_dev_ \o <<"s", "h", "m">>       \* "/dev/shm"
P_System_Volumes_VM == S_System_Volumes_ \o <<"V", "M">>

FilterPaths ==
    {P_var_snap_x, P_var_log, S_var, P_sys_fs, P_proc_x, P_boot_efi, P_boot,
     P_run_u, P_private_x, P_mnt_a}

FilterVolumes ==
    {Volume(mnt, "ext4", 1000, 250) : mnt \in FilterPaths}
        \cup {Volume(P_mnt_a, "devfs", 1000, 250)}

FilterMounts ==
    {Mount(path, TRUE, 0, 10, 5, TRUE) :
        path \in FilterPaths \cup {S_dev, P_dev_shm, S_System_Volumes_Data,
                                   P_System_Volumes_VM, P_mnt_b}}

FilterArgvs ==
    {Argv(None, only, exclude) :
        only \in {None,
                  Some(P_mnt_a \o Comma \o Space \o S_var \o Space \o Comma
                           \o P_proc_x \o Comma \o P_mnt_b)},
        exclude \in {None, Some(P_mnt_a), Some(Space \o S_var \o Comma \o P_mnt_b)}}

InitFilter ==
    InitWith(FilterVolumes, FilterMounts, FilterArgvs, {TRUE},
             MaxFilterVolumes, MaxFilterMounts)

SpecFilter == InitFilter /\ [][Next]_vars

(* Usage figures: empty, full, zero-sized, the 80% edge, and a volume      *)
(* reporting more available than total bytes, in every layout.             *)
MaxUsageVolumes == 1
MaxUsageMounts == 1

\* (total, available) in units of 50 bytes
UsagePairs ==
    {<<0, 0>>, <<0, 1>>, <<20, 5>>, <<20, 1>>, <<20, 4>>, <<10, 12>>,
     <<20, 0>>, <<20, 20>>}

UsageVolumes ==
    {Volume(P_mnt_a, "ext4", 50 * u[1], 50 * u[2]) : u \in UsagePairs}

UsageMounts ==
    {Mount(path, TRUE, 0, u[1], u[2], TRUE) :
        path \in {P_mnt_a, P_mnt_b}, u \in UsagePairs}
        \cup {Mount(path, TRUE, 0, 10, 12, FALSE) : path \in {P_mnt_a, P_mnt_b}}

UsageArgvs ==
    {Argv(mode, None, None) :
        mode \in {None, Some("normal"), Some("compact"), Some("table")}}

InitUsage ==
    InitWith(UsageVolumes, UsageMounts, UsageArgvs, {TRUE},
             MaxUsageVolumes, MaxUsageMounts)

SpecUsage == InitUsage /\ [][Next]_vars

----------------------------------------------------------------------------
(* Vocabulary of the properties *)

Records == 1..Len(disks)
Listed == 1..Len(mount_paths)
Reported == 1..Len(sysinfo_disks)

\* a record of the second loop: its path was not reported by sysinfo
FromMountpaths(k) == disks[k].mnt \notin processed_mounts

\* the metadata check, the build and statvfs all let the query succeed
QuerySucceeds(m) == m.metadata_ok /\ target_unix /\ m.statvfs.rc = 0

Total(m) == m.statvfs.f_frsize * m.statvfs.f_blocks
Available(m) == m.statvfs.f_frsize * m.statvfs.f_bavail

UserAllows(p) ==
    /\ only_mp.some => p \in only_mp.val
    /\ exclude_mp.some => p \notin exclude_mp.val

IsPrefix(s, t) == Len(s) <= Len(t) /\ SubSeq(t, 1, Len(s)) = s

\* C1: every record's usage fraction lies in [0, 1], whichever listing it
\* came from and whatever (total, available) pair was reported.
C1_FractionInUnitInterval ==
    \A k \in Records :
        /\ disks[k].space_as_frac.num >= 0
        /\ disks[k].space_as_frac.num <= disks[k].space_as_frac.den

\* C2: once both listings are walked, no two records share a mount path.
C2_UniqueMountPaths ==
    pc = "done" =>
        \A j, k \in Records : j # k => disks[j].mnt # disks[k].mnt

----------------------------------------------------------------------------
InBoth ==
    {sysinfo_disks[j].mount_point : j \in Reported}
        \cap {mount_paths[j].path : j \in Listed}

CarriesSysinfoData(k) ==
    \E j \in Reported :
        /\ sysinfo_disks[j].mount_point = disks[k].mnt
        /\ sysinfo_disks[j].name = disks[k].name
        /\ sysinfo_disks[j].total_space = disks[k].size
        /\ sysinfo_disks[j].available_space = disks[k].free

\* C3 as stated: a path in both listings appears exactly once in the final
\* sequence, with sysinfo's name, total and available, and the usage query
\* is never made for it.
C3_InBothExactlyOnce ==
    pc = "done" =>
        \A p \in InBoth :
            /\ Cardinality({k \in Records : disks[k].mnt = p}) = 1
            /\ \A k \in Records : disks[k].mnt = p => CarriesSysinfoData(k)
            /\ p \notin statvfs_calls

\* C3 as amended: a path in both listings appears once for each sysinfo
\* entry of that path that the first loop keeps (not at all when sysinfo's
\* entry is excluded), each time with sysinfo's name, total and available,
\* and the usage query is never made for it.
C3_InBothOnlyFromSysinfo ==
    pc = "done" =>
        \A p \in InBoth :
            /\ Cardinality({k \in Records : disks[k].mnt = p})
                 = Cardinality({j \in Reported :
                       /\ sysinfo_disks[j].mount_point = p
                       /\ ~disk_skipped(sysinfo_disks[j], only_mp, exclude_mp)})
            /\ \A k \in Records : disks[k].mnt = p => CarriesSysinfoData(k)
            /\ p \notin statvfs_calls

\* a path in both listings, kept from sysinfo, whose usage query would have
\* succeeded with other figures
C3_Witness ==
    /\ pc = "done"
    /\ \E j \in Listed, k \in Records :
        /\ mount_paths[j].path \in InBoth
        /\ QuerySucceeds(mount_paths[j])
        /\ ~mount_skipped(mount_paths[j].path, only_mp, exclude_mp)
        /\ disks[k].mnt = mount_paths[j].path
        /\ disks[k].size # Total(mount_paths[j])

----------------------------------------------------------------------------
\* C4: when --only-mp is given, every record's mount path is a member of
\* the parsed list, for records of either loop.
C4_OnlyListedPaths ==
    (pc # "args" /\ argv.only_mp.some) =>
        /\ only_mp.some
        /\ \A k \in Records : disks[k].mnt \in only_mp.val

\* an include list under which both loops have pushed a record
C4_Witness ==
    /\ pc = "done"
    /\ only_mp.some
    /\ \E j, k \in Records : ~FromMountpaths(j) /\ FromMountpaths(k)

\* the exclusion rules the claim names
Excluded(p) ==
    \/ starts_with(p, S_var_snap_)
    \/ starts_with(p, S_sys_)
    \/ starts_with(p, S_proc_)
    \/ starts_with(p, S_boot_)
    \/ (starts_with(p, S_var_) /\ p # S_var)
    \/ (exclude_mp.some /\ p \in exclude_mp.val)

\* "/var" itself, allowed by the user's lists, is listed by a source that
\* would otherwise keep it
VarIsListed ==
    /\ UserAllows(S_var)
    /\ \/ \E j \in Reported :
            /\ sysinfo_disks[j].mount_point = S_var
            /\ sysinfo_disks[j].file_system \notin {"overlay", "devfs"}
       \/ \E j \in Listed :
            /\ mount_paths[j].path = S_var
            /\ S_var \notin processed_mounts
            /\ QuerySucceeds(mount_paths[j])
            /\ 0 < Total(mount_paths[j])
            /\ Available(mount_paths[j]) <= Total(mount_paths[j])

\* C5: no record's mount path matches an exclusion rule (snap prefix, /sys/,
\* /proc/, under /boot/, under /var/, or the user's exclude list), whichever
\* loop met it; the /var mount itself is kept.
C5_ExcludedNeverListed ==
    /\ \A k \in Records : ~Excluded(disks[k].mnt)
    /\ (pc = "done" /\ VarIsListed) => \E k \in Records : disks[k].mnt = S_var

\* /var is kept while an excluded path listed beside it is dropped
C5_Witness ==
    /\ pc = "done"
    /\ \E k \in Records : disks[k].mnt = S_var
    /\ \E j \in Listed :
        /\ Excluded(mount_paths[j].path)
        /\ mount_paths[j].path \notin processed_mounts
        /\ QuerySucceeds(mount_paths[j])

----------------------------------------------------------------------------
\* a listed path sysinfo did not report, whose query succeeds, that passes
\* every rule, and that reports available > total > 0
Anomalous(j) ==
    LET m == mount_paths[j]
    IN  /\ m.path \notin processed_mounts
        /\ QuerySucceeds(m)
        /\ ~mount_skipped(m.path, only_mp, exclude_mp)
        /\ 0 < Total(m)
        /\ Total(m) < Available(m)

HasAnomalyRecord(j) ==
    \E k \in Records :
        /\ disks[k].mnt = mount_paths[j].path
        /\ disks[k].space_as_frac = [num |-> 1, den |-> 10]
        /\ disks[k].size = Total(mount_paths[j])
        /\ disks[k].free = Available(mount_paths[j])

\* C6 as stated: every such path has a record with fraction 1/10 and the
\* total and available figures as received.
C6_AnomalyAlwaysKept ==
    pc = "done" => \A j \in Listed : Anomalous(j) => HasAnomalyRecord(j)

\* C6 as amended: every such path that the existence re-check of the
\* anomalous branch still finds has a record with fraction 1/10 and the
\* total and available figures as received.
C6_AnomalyKeptIfExists ==
    pc = "done" =>
        \A j \in Listed :
            (Anomalous(j) /\ mount_paths[j].exists) => HasAnomalyRecord(j)

C6_Witness ==
    /\ pc = "done"
    /\ \E j \in Listed :
        Anomalous(j) /\ mount_paths[j].exists /\ HasAnomalyRecord(j)

\* C7: a record with total 0 has fraction exactly 0, and no record of the
\* second loop has total 0 (a path reporting 0/0 there yields no record).
C7_ZeroTotalZeroFraction ==
    \A k \in Records :
        disks[k].size = 0 =>
            /\ disks[k].space_as_frac = [num |-> 0, den |-> 1]
            /\ ~FromMountpaths(k)

\* sysinfo reported a zero-sized volume with bytes available, and a path
\* only mountpoints lists answered 0/0
C7_Witness ==
    /\ pc = "done"
    /\ \E k \in Records : disks[k].size = 0 /\ disks[k].free > 0
    /\ \E j \in Listed :
        /\ mount_paths[j].path \notin processed_mounts
        /\ QuerySucceeds(mount_paths[j])
        /\ ~mount_skipped(mount_paths[j].path, only_mp, exclude_mp)
        /\ Total(mount_paths[j]) = 0
        /\ Available(mount_paths[j]) = 0

----------------------------------------------------------------------------
\* the accessibility check or the usage query fails for a path that sysinfo
\* did not report
QueryFails(m) == m.path \notin processed_mounts /\ ~QuerySucceeds(m)

\* C8: a turn of the second loop whose path fails its accessibility check
\* or its usage query pushes nothing, changes nothing the later turns read,
\* and moves on to the next path; no turn of that loop touches the records
\* already pushed.
C8_FailureAbsorbed ==
    /\ [][(pc = "mountpoints" /\ idx <= Len(mount_paths)
                /\ QueryFails(mount_paths[idx]))
            => /\ pc' = "mountpoints"
               /\ idx' = idx + 1
               /\ disks' = disks
               /\ processed_mounts' = processed_mounts
               /\ only_mp' = only_mp
               /\ exclude_mp' = exclude_mp
               /\ mount_paths' = mount_paths]_vars
    /\ [][pc = "mountpoints" => IsPrefix(disks, disks')]_vars

\* after a sysinfo record, one listed path failed and a later one was kept
C8_Witness ==
    /\ pc = "done"
    /\ Len(disks) >= 2
    /\ ~FromMountpaths(1)
    /\ \E i, j \in Listed :
        /\ i < j
        /\ QueryFails(mount_paths[i])
        /\ QuerySucceeds(mount_paths[j])
        /\ disks[Len(disks)].mnt = mount_paths[j].path
        /\ FromMountpaths(Len(disks))

----------------------------------------------------------------------------
\* c = ceil(MAX_CHARS * fraction)
IsCeilOfCells(c, frac) ==
    /\ (c - 1) * frac.den < MAX_CHARS * frac.num
    /\ MAX_CHARS * frac.num <= c * frac.den

Scenarios ==
    \A k \in Records :
        /\ (disks[k].size = 1000 /\ disks[k].free = 250) =>
              printed[k] = [chars |-> 38, rem |-> 12, red |-> FALSE]
        /\ (disks[k].size = 1000 /\ disks[k].free = 50) =>
              printed[k] = [chars |-> 48, rem |-> 2, red |-> TRUE]

\* C9 as stated: filled = ceil(W * fraction), remaining = W - filled, and
\* the red flag is set exactly when remaining < 0.2 * W, which is exactly
\* when the fraction is at least 0.8.
C9_RedFromEightyPercent ==
    pc = "done" =>
        /\ Len(printed) = Len(disks)
        /\ \A k \in Records :
            /\ IsCeilOfCells(printed[k].chars, disks[k].space_as_frac)
            /\ printed[k].rem = MAX_CHARS - printed[k].chars
            /\ printed[k].red <=> (10 * printed[k].rem < 2 * MAX_CHARS)
            /\ printed[k].red <=>
                 (5 * disks[k].space_as_frac.num >= 4 * disks[k].space_as_frac.den)
        /\ Scenarios

\* C9 as amended: filled = ceil(W * fraction), or 0 when that is negative,
\* remaining = W - filled, and the red flag is set exactly when
\* remaining < 0.2 * W, which is exactly when the fraction exceeds 0.8.
C9_RedAboveEightyPercent ==
    pc = "done" =>
        /\ Len(printed) = Len(disks)
        /\ \A k \in Records :
            /\ IF disks[k].space_as_frac.num < 0
               THEN printed[k].chars = 0
               ELSE IsCeilOfCells(printed[k].chars, disks[k].space_as_frac)
            /\ printed[k].rem = MAX_CHARS - printed[k].chars
            /\ printed[k].red <=> (10 * printed[k].rem < 2 * MAX_CHARS)
            /\ printed[k].red <=>
                 (5 * disks[k].space_as_frac.num > 4 * disks[k].space_as_frac.den)
        /\ Scenarios

\* the table layout prints a volume that is exactly 80% used beside one
\* that is 95% used
C9_Witness ==
    /\ pc = "done"
    /\ output_mode = "table"
    /\ \E j, k \in Records :
        /\ disks[j].space_as_frac = [num |-> 4, den |-> 5]
        /\ printed[j] = [chars |-> 40, rem |-> 10, red |-> FALSE]
        /\ disks[k].size = 1000
        /\ disks[k].free = 50
        /\ printed[k].red

----------------------------------------------------------------------------
\* the text after the last '/' of a path
LastSegment(p) ==
    LET slashes == {k \in 1..Len(p) : p[k] = "/"}
    IN  IF slashes = {}
        THEN p
        ELSE SubSeq(p, (CHOOSE k \in slashes : \A h \in slashes : h <= k) + 1,
                    Len(p))

\* C10: a record of the second loop is named after the last '/'-separated
\* segment of its path, and "<unknown>" when that segment is empty.
C10_NameOrPlaceholder ==
    \A k \in Records :
        FromMountpaths(k) =>
            disks[k].name = IF LastSegment(disks[k].mnt) = <<>>
                            THEN S_unknown
                            ELSE LastSegment(disks[k].mnt)

====
